---- MODULE Spec2Model ----
(***************************************************************************)
(* The address-resolution pipeline of Ai.DataLabF25:                       *)
(*   data_work/01_geocode_addresses.py  (stage 1, CSV cache)               *)
(*   data_work/01_retry_no_match.py     (retry pass, JSON checkpoint)      *)
(*   data_work/01_zip_fallback.py       (ZIP fallback, JSON cache)         *)
(* Strings are TLA+ strings; Len, SubSeq and \o act on them character by   *)
(* character.  A Python dict is a function whose DOMAIN is its key set.    *)
(***************************************************************************)
EXTENDS Integers, Sequences, FiniteSets, TLC

VARIABLES
    script,          \* which script the operator runs in this behaviour
    pc,              \* position of the running process
    oracle,          \* the external service: any answer, or a fixed answer per address
    series,          \* the input of the runs: any series, or one fixed set of addresses
    calls,           \* address -> number of service calls issued so far
    run_calls,       \* address -> number of service calls issued by the running process
    last_call,       \* the latest service call: address, answer, recorded result
    runs,            \* number of process starts so far
    \* ---- 01_geocode_addresses.py ----
    cache_file,      \* np_geocode_cache.csv: data rows, cells as text
    cache_path,      \* TRUE when geocode_addresses got a cache path
    save_every,      \* parameter save_every
    unique,          \* list unique
    to_do,           \* list to_do
    i,               \* number of loop iterations completed
    rows,            \* list rows (results held in memory only)
    cached,          \* frame cached
    returned,        \* frame returned by geocode_addresses
    \* ---- 01_retry_no_match.py ----
    in_csv,          \* np_geocoded.csv, the output of stage 1: data rows, cells as text
    out_csv,         \* np_geocoded_improved.csv
    checkpoint,      \* retry_checkpoints/np_geocoded.json
    addresses,       \* parameter addresses of geocode_unique
    pos,             \* number of addresses the loop is done with
    attempt,         \* loop variable attempt
    status,          \* local status of geocode_unique
    cache,           \* dict cache of geocode_unique, and of apply_zip_fallback
    \* ---- 01_zip_fallback.py (reads in_csv, uses i and cache) ----
    phys_csv,        \* phys_geocoded.csv, the second file main processes
    zip_cache,       \* zip_fallback_cache.json
    zip_out,         \* np_geocoded_zip.csv and phys_geocoded_zip.csv
    file_no,         \* which call of apply_zip_fallback main is in
    need,            \* list need
    fcc_calls,       \* ZIP -> number of FCC lookups issued for its centroid
    \* ---- the normalisation functions applied to a value ----
    text,            \* the value
    once,            \* the function applied to it
    twice,           \* the function applied to the result
    \* ---- app_dash.py ----
    selected_fips,   \* data of the dcc.Store selected_fips
    clickData,       \* property clickData of the graph ga_map
    metric,          \* value of the radio items metric
    type_filter,     \* value of the dropdown type_filter
    ga_map,          \* property figure of the graph ga_map
    map_title        \* children of the link map_title

s1vars == <<cache_file, cache_path, save_every, unique, to_do, i, rows, cached, returned>>
rtvars == <<out_csv, checkpoint, addresses, pos, attempt, status, cache>>
zipvars == <<phys_csv, zip_cache, zip_out, file_no, need, fcc_calls>>
normvars == <<text, once, twice>>
dashvars == <<selected_fips, clickData, metric, type_filter, ga_map, map_title>>
not_geocode == <<in_csv, rtvars, zipvars, normvars, dashvars>>
not_retry == <<s1vars, zipvars, normvars, dashvars, series>>
not_zip == <<cache_file, cache_path, save_every, unique, to_do, rows, cached, returned,
             out_csv, checkpoint, addresses, pos, attempt, status, last_call, oracle,
             normvars, dashvars, series>>

(***************************************************************************)
(* Bounds of the model.                                                    *)
(***************************************************************************)
NumAddr == 2          \* addresses that occur in an input series
MaxRuns == 2          \* process starts in one behaviour
MaxSaveEvery == 2     \* save_every is drawn from 1..MaxSaveEvery
MaxRows == 2          \* rows of np_geocoded.csv
CheckpointEvery == 2  \* the retry pass saves every 200 entries: scaled down
ZipSaveEvery == 2     \* the ZIP fallback saves every 50 ZIPs: scaled down
MaxPhysRows == 1      \* rows of phys_geocoded.csv
MaxTokens == 4        \* tokens of an address given to canonicalize_address
MaxLen == 5           \* characters of a value given to clean_str

max_retries == 2      \* default of geocode_unique

(***************************************************************************)
(* Python values.                                                          *)
(***************************************************************************)
None == "None"        \* Python None
NaN == "NaN"          \* pandas missing value
EmptyDict == [k \in {} |-> None]

Get(d, k, default) == IF k \in DOMAIN d THEN d[k] ELSE default
GetList(d, k) == IF k \in DOMAIN d THEN d[k] ELSE << >>    \* d.get(k) or []
Truthy(v) == v # None /\ v # ""                            \* truth value of a str or None
Or(v, w) == IF Truthy(v) THEN v ELSE w
Ch(s, k) == SubSeq(s, k, k)
Range(f) == {f[k] : k \in DOMAIN f}

(***************************************************************************)
(* Character classes of Python's re and str for the characters in use.     *)
(* "~" stands for U+00A0 (no-break space).                                 *)
(***************************************************************************)
NBSP == "~"
Digits == "0123456789"
Uppers == "ABCDEFGHIJKLMNOPQRSTUVWXYZ"
Lowers == "abcdefghijklmnopqrstuvwxyz"
Chars(s) == {Ch(s, k) : k \in 1..Len(s)}
DigitSet == Chars(Digits)
UpperSet == Chars(Uppers)
LowerSet == Chars(Lowers)
WordSet == DigitSet \cup UpperSet \cup LowerSet \cup {"_"}
UpperOf == [c \in LowerSet |-> Ch(Uppers, CHOOSE k \in 1..26 : Ch(Lowers, k) = c)]
IsSpace(c) == c \in {" ", "\t", NBSP}      \* \s, str.isspace
IsDigit(c) == c \in DigitSet               \* \d
IsUpper(c) == c \in UpperSet               \* [A-Z]
IsLower(c) == c \in LowerSet               \* [a-z]
IsWord(c) == c \in WordSet                 \* \w
ToUpper(c) == IF c \in LowerSet THEN UpperOf[c] ELSE c

CodeOrder == "\t #,-.0123456789ABCDEFGHIJKLMNOPQRSTUVWXYZ_abcdefghijklmnopqrstuvwxyz~"
CodeOf == [c \in Chars(CodeOrder) |-> CHOOSE k \in 1..Len(CodeOrder) : Ch(CodeOrder, k) = c]
Code(c) == CodeOf[c]

\* str.__lt__: lexicographic order by code point
RECURSIVE StrLess(_, _)
StrLess(s, t) ==
    IF t = "" THEN FALSE
    ELSE IF s = "" THEN TRUE
    ELSE IF Head(s) = Head(t) THEN StrLess(Tail(s), Tail(t))
    ELSE Code(Head(s)) < Code(Head(t))

\* str.strip()
RECURSIVE LStrip(_)
LStrip(s) == IF s # "" /\ IsSpace(Head(s)) THEN LStrip(Tail(s)) ELSE s
RECURSIVE RStrip(_)
RStrip(s) == IF s # "" /\ IsSpace(Ch(s, Len(s))) THEN RStrip(SubSeq(s, 1, Len(s) - 1)) ELSE s
Strip(s) == RStrip(LStrip(s))

\* sorted(set(...)) of strings
RECURSIVE Sorted(_)
Sorted(S) ==
    IF S = {} THEN << >>
    ELSE LET m == CHOOSE x \in S : \A y \in S \ {x} : StrLess(x, y)
         IN <<m>> \o Sorted(S \ {m})

(***************************************************************************)
(* Regular expressions of the scripts, as scans over the string: At(s, k)  *)
(* is the character at position k, "" outside the string.                  *)
(***************************************************************************)
At(s, k) == IF k >= 1 /\ k <= Len(s) THEN Ch(s, k) ELSE ""
From(s, k) == SubSeq(s, k, Len(s))
\* \b between positions k-1 and k
Boundary(s, k) == IsWord(At(s, k - 1)) # IsWord(At(s, k))

RECURSIVE SkipSpaces(_, _)
SkipSpaces(s, k) == IF IsSpace(At(s, k)) THEN SkipSpaces(s, k + 1) ELSE k
RECURSIVE SkipWord(_, _)
SkipWord(s, k) == IF IsWord(At(s, k)) THEN SkipWord(s, k + 1) ELSE k

\* the literal w at position k; ci: re.I
RECURSIVE Lit(_, _, _, _)
Lit(s, k, w, ci) ==
    \/ w = ""
    \/ /\ IF ci THEN ToUpper(At(s, k)) = ToUpper(Head(w)) ELSE At(s, k) = Head(w)
       /\ Lit(s, k + 1, Tail(w), ci)

\* re.sub(r"\s+", " ", s), from position k on
RECURSIVE collapse_ws(_, _)
collapse_ws(s, k) ==
    IF k > Len(s) THEN ""
    ELSE IF IsSpace(Ch(s, k)) THEN " " \o collapse_ws(s, SkipSpaces(s, k))
    ELSE Ch(s, k) \o collapse_ws(s, k + 1)

\* re.sub(r"([a-z])([A-Z])", r"\1 \2", s), from position k on
RECURSIVE split_camel(_, _)
split_camel(s, k) ==
    IF k > Len(s) THEN ""
    ELSE IF IsLower(Ch(s, k)) /\ IsUpper(At(s, k + 1))
    THEN Ch(s, k) \o " " \o Ch(s, k + 1) \o split_camel(s, k + 2)
    ELSE Ch(s, k) \o split_camel(s, k + 1)

(***************************************************************************)
(* 01_retry_no_match.py: cleaning helpers                                  *)
(***************************************************************************)
clean_spaces(s) == split_camel(Strip(collapse_ws(s, 1)), 1)

RECURSIVE FirstDigit(_, _)
FirstDigit(s, k) == IF k > Len(s) THEN 0 ELSE IF IsDigit(Ch(s, k)) THEN k ELSE FirstDigit(s, k + 1)

strip_leading_org(s) ==
    LET c == clean_spaces(s)
        m == FirstDigit(c, 1)
    IN IF m > 0 THEN From(c, m) ELSE c

SuiteWords == <<"STE", "SUITE", "UNIT", "APT", "#">>
\* end of a match of \b(?:STE|SUITE|UNIT|APT|#)\s*\w+\b at k (re.I), or 0
SuiteMatch(s, k) ==
    IF ~Boundary(s, k) THEN 0
    ELSE LET hits == {n \in 1..Len(SuiteWords) :
                        /\ Lit(s, k, SuiteWords[n], TRUE)
                        /\ IsWord(At(s, SkipSpaces(s, k + Len(SuiteWords[n]))))}
         IN IF hits = {} THEN 0
            ELSE LET n == CHOOSE h \in hits : \A g \in hits : h <= g
                 IN SkipWord(s, SkipSpaces(s, k + Len(SuiteWords[n])))

RECURSIVE strip_suite_from(_, _)
strip_suite_from(s, k) ==
    IF k > Len(s) THEN ""
    ELSE LET e == SuiteMatch(s, k)
         IN IF e > 0 THEN strip_suite_from(s, e)
            ELSE Ch(s, k) \o strip_suite_from(s, k + 1)
strip_suite(s) == strip_suite_from(s, 1)

\* re.sub(r"\b" + w + tail_boundary, rep, s, flags=re.I), from position k on;
\* after a w that ends in ".", \b asks for a word character next
RECURSIVE sub_word(_, _, _, _)
sub_word(s, k, w, rep) ==
    IF k > Len(s) THEN ""
    ELSE IF Boundary(s, k) /\ Lit(s, k, w, TRUE) /\ Boundary(s, k + Len(w))
    THEN rep \o sub_word(s, k + Len(w), w, rep)
    ELSE Ch(s, k) \o sub_word(s, k + 1, w, rep)

expand_abbrev(s) ==
    LET s1 == sub_word(s, 1, "PKWY", "PARKWAY")
        s2 == sub_word(s1, 1, "AVE", "AVENUE")
        s3 == sub_word(s2, 1, "RD.", "RD")
    IN sub_word(s3, 1, "ST.", "ST")

\* re.sub(r"\sGA,", ", GA,", s), from position k on
RECURSIVE sub_ga_comma(_, _)
sub_ga_comma(s, k) ==
    IF k > Len(s) THEN ""
    ELSE IF IsSpace(Ch(s, k)) /\ Lit(s, k + 1, "GA,", FALSE)
    THEN ", GA," \o sub_ga_comma(s, k + 4)
    ELSE Ch(s, k) \o sub_ga_comma(s, k + 1)

\* re.sub(r"\sGA\s(\d{5})", r", GA, \1", s), from position k on
RECURSIVE sub_ga_zip(_, _)
sub_ga_zip(s, k) ==
    IF k > Len(s) THEN ""
    ELSE IF /\ IsSpace(Ch(s, k)) /\ Lit(s, k + 1, "GA", FALSE) /\ IsSpace(At(s, k + 3))
            /\ \A d \in 4..8 : IsDigit(At(s, k + d))
    THEN ", GA, " \o SubSeq(s, k + 4, k + 8) \o sub_ga_zip(s, k + 9)
    ELSE Ch(s, k) \o sub_ga_zip(s, k + 1)

ensure_commas(s) == sub_ga_zip(sub_ga_comma(clean_spaces(s), 1), 1)

canonicalize_address(s) ==
    clean_spaces(ensure_commas(expand_abbrev(strip_suite(strip_leading_org(clean_spaces(s))))))

\* 01_geocode_addresses.py, clean_str: s.replace(" ", " ")
RECURSIVE replace_nbsp(_)
replace_nbsp(s) ==
    IF s = "" THEN "" ELSE (IF Head(s) = NBSP THEN " " ELSE Head(s)) \o replace_nbsp(Tail(s))

\* clean_str without str.strip()
clean_str_no_strip(x) == IF x \in {NaN, None} THEN "" ELSE collapse_ws(replace_nbsp(x), 1)
clean_str(x) == IF x \in {NaN, None} THEN "" ELSE collapse_ws(replace_nbsp(Strip(x)), 1)

(***************************************************************************)
(* The addresses and the answers of the Census geocoder.                   *)
(***************************************************************************)
AddrList == <<"1 A GA 30303", "2 B STE 5 GA 30606", "Z 1 A GA 30303", "NPs 7 C, GA, 30606-1234",
              "9 D Ave">>
\* an address that pd.read_csv takes for a missing value
NaAddr == "NA"
Addrs == {AddrList[k] : k \in 1..NumAddr} \cup {NaAddr}

Coords == [x |-> "f:-84.39", y |-> "f:33.75"]
M_county == [geographies |-> [Counties |-> <<[GEOID |-> "13121", NAME |-> "Fulton County"]>>],
             coordinates |-> Coords]
M_other == [geographies |-> [Counties |-> <<[GEOID |-> "13089", NAME |-> "DeKalb County"]>>],
            coordinates |-> [x |-> "f:-84.29", y |-> "f:33.77"]]
M_no_geoid == [geographies |-> [Counties |-> <<[NAME |-> "Fulton County"]>>],
               coordinates |-> Coords]
Tract(st, co) == IF st = None /\ co = None THEN [TRACT |-> "001100"]
                 ELSE IF co = None THEN [STATE |-> st]
                 ELSE IF st = None THEN [COUNTY |-> co]
                 ELSE [STATE |-> st, COUNTY |-> co]
M_tract(st, co) == [geographies |-> ("Counties" :> << >> @@ "Census Tracts" :> <<Tract(st, co)>>),
                    coordinates |-> Coords]

ExcTypes == {"Timeout", "ConnectionError"}
Raise(t) == [kind |-> "raise", exc |-> t]
Answer(v) == [kind |-> "return", isdict |-> FALSE, value |-> v]
AnswerDict(v) == [kind |-> "return", isdict |-> TRUE, value |-> v]

\* what cg.onelineaddress can do: raise, or return a list of matches or the raw JSON dict
Responses ==
    {Raise(t) : t \in ExcTypes} \cup
    {Answer(<< >>),
     Answer(<<M_county, M_other>>),
     AnswerDict([result |-> [addressMatches |-> <<M_other>>]]),
     Answer(<<M_no_geoid>>),
     Answer(<<M_tract("13", "121")>>),
     Answer(<<M_tract("13", None)>>),
     Answer(<<M_tract(None, None)>>),
     Answer(<<EmptyDict>>)}

\* the service of a behaviour: any answer to any call, or a fixed answer per address
AnyAnswer == [fixed |-> FALSE, answer |-> EmptyDict]
Service(a) == IF oracle.fixed THEN {oracle.answer[a]} ELSE Responses

(***************************************************************************)
(* 01_geocode_addresses.py                                                 *)
(***************************************************************************)
None4 == <<None, None, None, None>>

cg_first_county(match) ==
    IF DOMAIN match = {} THEN None4
    ELSE LET geos == Get(match, "geographies", EmptyDict)
             counties == GetList(geos, "Counties")
             tracts == GetList(geos, "Census Tracts")
             coords == Get(match, "coordinates", EmptyDict)
             lon == Get(coords, "x", None)
             lat == Get(coords, "y", None)
         IN IF counties # << >>
            THEN <<Get(counties[1], "GEOID", None), Get(counties[1], "NAME", None), lat, lon>>
            ELSE IF tracts # << >>
            THEN <<Or(Get(tracts[1], "STATE", None), "") \o Or(Get(tracts[1], "COUNTY", None), ""),
                   None, lat, lon>>
            ELSE None4

Row(addr, t, st) ==
    [oneline |-> addr, county_fips |-> t[1], county_name |-> t[2],
     lat |-> t[3], lon |-> t[4], status |-> st]

\* geocode_one with the status decided by the presence of a match alone
geocode_one_any_match(addr, resp) ==
    IF resp.kind = "raise" THEN Row(addr, None4, "error:" \o resp.exc)
    ELSE LET v == resp.value
             matches == IF resp.isdict /\ "result" \in DOMAIN v
                        THEN GetList(Get(v, "result", EmptyDict), "addressMatches")
                        ELSE v
         IN IF matches # << >>
            THEN Row(addr, cg_first_county(matches[1]), "matched")
            ELSE Row(addr, None4, "no_match")

\* lines 142-162: the body of the loop for one address and one answer of the service
geocode_one(addr, resp) ==
    IF resp.kind = "raise" THEN Row(addr, None4, "error:" \o resp.exc)
    ELSE LET v == resp.value
             matches == IF resp.isdict /\ "result" \in DOMAIN v
                        THEN GetList(Get(v, "result", EmptyDict), "addressMatches")
                        ELSE v
         IN IF matches # << >>
            THEN LET t == cg_first_county(matches[1])
                 IN Row(addr, t, IF Truthy(t[1]) THEN "matched" ELSE "no_county")
            ELSE Row(addr, None4, "no_match")

\* DataFrame.to_csv / pd.read_csv(dtype=str) of one cell
\* a float is written "f:" and its repr
IsFloat(v) == Len(v) >= 2 /\ SubSeq(v, 1, 2) = "f:"
to_csv_cell(v) == IF v \in {None, NaN} THEN "" ELSE IF IsFloat(v) THEN SubSeq(v, 3, Len(v)) ELSE v
\* read_csv parses the empty cell and its default NA strings as NaN, with dtype=str too
NaStrings == {"", "NA", "N/A", "n/a", "NULL", "null"}
read_csv_cell(t) == IF t \in NaStrings THEN NaN ELSE t
Cols == {"oneline", "county_fips", "county_name", "lat", "lon", "status"}
to_csv(frame) == [k \in 1..Len(frame) |-> [c \in Cols |-> to_csv_cell(frame[k][c])]]
read_csv(file) == [k \in 1..Len(file) |-> [c \in Cols |-> read_csv_cell(file[k][c])]]

load_cache(file) == read_csv(file)
\* append_cache opening the file with mode "w"
append_cache_truncating(file, chunk) == to_csv(chunk)
append_cache(file, chunk) == file \o to_csv(chunk)

Count(a) == IF a \in DOMAIN calls THEN calls[a] ELSE 0
Called(a) == [x \in DOMAIN calls \cup {a} |-> IF x = a THEN Count(a) + 1 ELSE calls[x]]
RunCount(a) == IF a \in DOMAIN run_calls THEN run_calls[a] ELSE 0
RunCalled(a) == [x \in DOMAIN run_calls \cup {a} |-> IF x = a THEN RunCount(a) + 1 ELSE run_calls[x]]
NoCall == [addr |-> None, resp |-> Raise(None), result |-> << >>]

\* the input of the runs of a behaviour: any series for any run, or one set of addresses
AnySeries == [fixed |-> FALSE, addrs |-> {}]
\* what an input series may hold besides addresses: blank strings and a missing value
Blanks == {"", " ", NaN}

\* line 136 finding no address in the cache
done_nothing(loaded) == {}
\* line 136: the addresses the cache holds
done_of(loaded) == {loaded[k].oneline : k \in DOMAIN loaded}

\* lines 132-139: the function is entered; load_cache(Path()) reads "." when no
\* cache path is given, which raises unless the directory has size 0
geocode_addresses_start ==
    /\ script = "geocode" /\ pc \in {"idle", "returned", "raised"} /\ runs < MaxRuns
    /\ \E S \in (IF series.fixed THEN {series.addrs} ELSE SUBSET Addrs),
          B \in {{}, Blanks}, cwd_size \in {0, 4096} :
         LET address_series == S \cup B
             uniq == Sorted({a \in address_series : a # NaN /\ Strip(a) # ""})
             loaded == IF cache_path THEN load_cache(cache_file) ELSE << >>
             done == done_of(loaded)
         IN /\ rows' = << >> /\ i' = 0 /\ returned' = << >> /\ unique' = uniq
            /\ IF ~cache_path /\ cwd_size > 0
               THEN pc' = "raised" /\ cached' = << >> /\ to_do' = << >>
               ELSE /\ pc' = "loop" /\ cached' = loaded
                    /\ to_do' = SelectSeq(uniq, LAMBDA a : a \notin done)
    /\ runs' = runs + 1 /\ last_call' = NoCall /\ run_calls' = EmptyDict
    /\ UNCHANGED <<script, oracle, series, calls, cache_file, cache_path, save_every>>
    /\ UNCHANGED not_geocode

\* the loop without its except clause: an exception of the service leaves the function
geocode_addresses_loop_no_except ==
    /\ script = "geocode" /\ pc = "loop" /\ i < Len(to_do)
    /\ \E resp \in Service(to_do[i + 1]) :
         LET addr == to_do[i + 1]
             row == geocode_one(addr, resp)
             rows1 == IF resp.kind = "raise" THEN rows ELSE Append(rows, row)
             flush == resp.kind = "return" /\ cache_path /\ (i + 1) % save_every = 0
         IN /\ calls' = Called(addr) /\ run_calls' = RunCalled(addr)
            /\ last_call' = [addr |-> addr, resp |-> resp, result |-> row]
            /\ cache_file' = IF flush THEN append_cache(cache_file, rows1) ELSE cache_file
            /\ cached' = IF flush THEN cached \o rows1 ELSE cached
            /\ rows' = IF flush THEN << >> ELSE rows1
            /\ pc' = IF resp.kind = "raise" THEN "raised" ELSE pc
    /\ i' = i + 1
    /\ UNCHANGED <<script, oracle, series, runs, cache_path, save_every, unique, to_do, returned>>
    /\ UNCHANGED not_geocode

\* lines 141-170: one iteration of the loop
geocode_addresses_loop ==
    /\ script = "geocode" /\ pc = "loop" /\ i < Len(to_do)
    /\ \E resp \in Service(to_do[i + 1]) :
         LET addr == to_do[i + 1]
             row == geocode_one(addr, resp)
             rows1 == Append(rows, row)
             flush == cache_path /\ (i + 1) % save_every = 0
         IN /\ calls' = Called(addr) /\ run_calls' = RunCalled(addr)
            /\ last_call' = [addr |-> addr, resp |-> resp, result |-> row]
            /\ cache_file' = IF flush THEN append_cache(cache_file, rows1) ELSE cache_file
            /\ cached' = IF flush THEN cached \o rows1 ELSE cached
            /\ rows' = IF flush THEN << >> ELSE rows1
    /\ i' = i + 1
    /\ UNCHANGED <<script, oracle, series, runs, pc, cache_path, save_every, unique, to_do, returned>>
    /\ UNCHANGED not_geocode

\* the end of the function without lines 173-179: the remaining rows are not flushed
geocode_addresses_return_no_flush ==
    /\ script = "geocode" /\ pc = "loop" /\ i = Len(to_do)
    /\ returned' = IF cache_path THEN load_cache(cache_file) ELSE cached
    /\ rows' = << >> /\ pc' = "returned"
    /\ UNCHANGED <<script, oracle, series, calls, run_calls, last_call, runs, cache_path, save_every,
                   unique, to_do, i, cache_file, cached>>
    /\ UNCHANGED not_geocode

\* lines 172-185: the loop has ended
geocode_addresses_return ==
    /\ script = "geocode" /\ pc = "loop" /\ i = Len(to_do)
    /\ LET file1 == IF rows # << >> /\ cache_path THEN append_cache(cache_file, rows)
                     ELSE cache_file
           cached1 == IF rows # << >> THEN cached \o rows ELSE cached
       IN /\ cache_file' = file1 /\ cached' = cached1
          /\ returned' = IF cache_path THEN load_cache(file1) ELSE cached1
    /\ rows' = << >> /\ pc' = "returned"
    /\ UNCHANGED <<script, oracle, series, calls, run_calls, last_call, runs, cache_path, save_every,
                   unique, to_do, i>>
    /\ UNCHANGED not_geocode

\* main, lines 251-252: left.merge(frame, on="oneline", how="left") for the keys of
\* the left rows: the rows of frame with the key, or one row of missing values
RECURSIVE merge_left(_, _)
merge_left(keys, frame) ==
    IF keys = << >> THEN << >>
    ELSE LET hits == SelectSeq(frame, LAMBDA r : r.oneline = Head(keys))
         IN (IF hits = << >> THEN <<Row(Head(keys), <<NaN, NaN, NaN, NaN>>, NaN)>> ELSE hits)
            \o merge_left(Tail(keys), frame)

\* the process is stopped (Ctrl-C, kill) between two iterations: its memory is lost
geocode_addresses_interrupt ==
    /\ script = "geocode" /\ pc = "loop"
    /\ pc' = "idle"
    /\ rows' = << >> /\ cached' = << >> /\ to_do' = << >> /\ i' = 0 /\ returned' = << >>
    /\ unique' = << >>
    /\ last_call' = NoCall /\ run_calls' = EmptyDict
    /\ UNCHANGED <<script, oracle, series, calls, runs, cache_file, cache_path, save_every>>
    /\ UNCHANGED not_geocode

(***************************************************************************)
(* 01_retry_no_match.py                                                    *)
(***************************************************************************)
retry_cg_first_county(match) ==
    LET geos == Get(match, "geographies", EmptyDict)
        counties == GetList(geos, "Counties")
        coords == Get(match, "coordinates", EmptyDict)
    IN IF counties = << >> THEN None4
       ELSE <<Get(counties[1], "GEOID", None), Get(counties[1], "NAME", None),
              Get(coords, "y", None), Get(coords, "x", None)>>

\* json.dumps / json.loads of one value: None, a float or a str
json_dumps_value(v) ==
    IF v = None THEN "null" ELSE IF IsFloat(v) THEN SubSeq(v, 3, Len(v)) ELSE "\"" \o v \o "\""
json_loads_value(t) ==
    IF t = "null" THEN None
    ELSE IF Head(t) = "\"" THEN SubSeq(t, 2, Len(t) - 1) ELSE "f:" \o t
json_dumps(d) == [a \in DOMAIN d |-> [j \in DOMAIN d[a] |-> json_dumps_value(d[a][j])]]
json_loads(d) == [a \in DOMAIN d |-> [j \in DOMAIN d[a] |-> json_loads_value(d[a][j])]]

\* a JSON file: absent, unreadable, or the text of a dict
NoFile == [exists |-> FALSE, valid |-> FALSE, text |-> EmptyDict]
load_checkpoint(file) == IF file.exists /\ file.valid THEN json_loads(file.text) ELSE EmptyDict
save_checkpoint(d) == [exists |-> TRUE, valid |-> TRUE, text |-> json_dumps(d)]

\* geocode_attempt with one attempt more than max_retries + 1
geocode_attempt_one_more(resp, st, att) ==
    IF resp.kind = "return"
    THEN LET res == IF resp.isdict
                    THEN GetList(Get(resp.value, "result", EmptyDict), "addressMatches")
                    ELSE resp.value
         IN IF res # << >>
            THEN LET t == retry_cg_first_county(res[1])
                 IN [entry |-> t \o <<IF Truthy(t[1]) THEN "matched" ELSE "no_match">>,
                     again |-> FALSE]
            ELSE [entry |-> None4 \o <<st>>, again |-> FALSE]
    ELSE [entry |-> None4 \o <<"error:" \o resp.exc>>, again |-> att <= max_retries]

\* geocode_attempt trying again after an answer without a match
geocode_attempt_until_match(resp, st, att) ==
    IF resp.kind = "return"
    THEN LET res == IF resp.isdict
                    THEN GetList(Get(resp.value, "result", EmptyDict), "addressMatches")
                    ELSE resp.value
         IN IF res # << >>
            THEN LET t == retry_cg_first_county(res[1])
                 IN [entry |-> t \o <<IF Truthy(t[1]) THEN "matched" ELSE "no_match">>,
                     again |-> FALSE]
            ELSE [entry |-> None4 \o <<st>>, again |-> att < max_retries]
    ELSE [entry |-> None4 \o <<"error:" \o resp.exc>>, again |-> att < max_retries]

\* lines 86-99: one attempt for addr with the answer resp, status st so far:
\* <<fips, name, lat, lon, status>> and whether the attempt loop goes on
geocode_attempt(resp, st, att) ==
    IF resp.kind = "return"
    THEN LET res == IF resp.isdict
                    THEN GetList(Get(resp.value, "result", EmptyDict), "addressMatches")
                    ELSE resp.value
         IN IF res # << >>
            THEN LET t == retry_cg_first_county(res[1])
                 IN [entry |-> t \o <<IF Truthy(t[1]) THEN "matched" ELSE "no_match">>,
                     again |-> FALSE]
            ELSE [entry |-> None4 \o <<st>>, again |-> FALSE]
    ELSE [entry |-> None4 \o <<"error:" \o resp.exc>>, again |-> att < max_retries]

\* str(x) of a cell
PyStr(x) == IF x = NaN THEN "nan" ELSE x
fillna(x, v) == IF x = NaN THEN v ELSE x

\* Series.unique(): first occurrences, in order
RECURSIVE Unique(_)
Unique(q) ==
    IF q = << >> THEN << >>
    ELSE LET r == Unique(SubSeq(q, 1, Len(q) - 1))
         IN IF q[Len(q)] \in Range(r) THEN r ELSE Append(r, q[Len(q)])

miss_mask(df) == [k \in DOMAIN df |-> fillna(df[k].status, "") # "matched"]
Select(df, mask, b) == LET ks == SelectSeq([k \in DOMAIN df |-> k], LAMBDA k : mask[k] = b)
                       IN [j \in DOMAIN ks |-> df[ks[j]]]
\* line 138: miss["oneline"].map(canonicalize_address), computed once per distinct cell
InAddrs == {AddrList[k] : k \in 1..(NumAddr + 1)}
Canonical == [x \in InAddrs \cup {NaN} |-> canonicalize_address(PyStr(x))]
oneline_retry(row) == Canonical[row.oneline]

\* retry_row taking the retry's values whatever its status
retry_row_always_new(row, addr_map) ==
    LET v == Get(addr_map, oneline_retry(row), <<None, None, None, None, "no_match">>)
    IN [oneline |-> row.oneline, county_fips |-> v[1], county_name |-> v[2],
        lat |-> v[3], lon |-> v[4], status |-> v[5]]
\* lines 144-159: map the results back to the rows and stitch the frame together
retry_row(row, addr_map) ==
    LET v == Get(addr_map, oneline_retry(row), <<None, None, None, None, "no_match">>)
    IN IF v[5] = "matched"
       THEN [oneline |-> row.oneline, county_fips |-> v[1], county_name |-> v[2],
             lat |-> v[3], lon |-> v[4], status |-> v[5]]
       ELSE row
\* retry_merge keeping one row per canonicalized address
retry_merge_per_address(df, addr_map) ==
    LET miss == Select(df, miss_mask(df), TRUE)
        first == SelectSeq([k \in DOMAIN miss |-> k],
                           LAMBDA k : \A j \in 1..(k - 1) :
                                         oneline_retry(miss[j]) # oneline_retry(miss[k]))
    IN Select(df, miss_mask(df), FALSE)
       \o [k \in DOMAIN first |-> retry_row(miss[first[k]], addr_map)]
retry_merge(df, addr_map) ==
    LET miss == Select(df, miss_mask(df), TRUE)
    IN Select(df, miss_mask(df), FALSE) \o [k \in DOMAIN miss |-> retry_row(miss[k], addr_map)]

Written(frame) == [exists |-> TRUE, rows |-> to_csv(frame)]
NotWritten == [exists |-> FALSE, rows |-> << >>]

\* lines 111-142 and 77-79: retry_file up to the loop of geocode_unique
retry_file_start ==
    /\ script = "retry" /\ pc \in {"idle", "returned"} /\ runs < MaxRuns
    /\ LET df == read_csv(in_csv)
           miss == Select(df, miss_mask(df), TRUE)
       IN IF miss = << >>
          THEN /\ out_csv' = Written(df) /\ pc' = "returned"
               /\ addresses' = << >> /\ cache' = EmptyDict
          ELSE /\ addresses' = Unique([k \in DOMAIN miss |-> oneline_retry(miss[k])])
               /\ cache' = load_checkpoint(checkpoint)
               /\ pc' = "loop" /\ out_csv' = out_csv
    /\ pos' = 0 /\ attempt' = 0 /\ status' = "no_match"
    /\ runs' = runs + 1 /\ last_call' = NoCall /\ run_calls' = EmptyDict
    /\ UNCHANGED <<script, oracle, calls, in_csv, checkpoint>>
    /\ UNCHANGED not_retry

\* lines 81-82: the address is in the cache
geocode_unique_skip ==
    /\ script = "retry" /\ pc = "loop" /\ pos < Len(addresses)
    /\ addresses[pos + 1] \in DOMAIN cache
    /\ pos' = pos + 1
    /\ UNCHANGED <<script, pc, oracle, calls, run_calls, last_call, runs, in_csv>>
    /\ UNCHANGED <<out_csv, checkpoint, addresses, attempt, status, cache>>
    /\ UNCHANGED not_retry

\* lines 83-105: one attempt for the address; after the last attempt the result
\* is stored and the checkpoint saved when due
geocode_unique_attempt ==
    /\ script = "retry" /\ pc = "loop" /\ pos < Len(addresses)
    /\ addresses[pos + 1] \notin DOMAIN cache
    /\ \E resp \in Service(addresses[pos + 1]) :
         LET addr == addresses[pos + 1]
             a == geocode_attempt(resp, status, attempt)
             cache1 == [x \in DOMAIN cache \cup {addr} |-> IF x = addr THEN a.entry ELSE cache[x]]
         IN /\ calls' = Called(addr) /\ run_calls' = RunCalled(addr)
            /\ IF a.again
               THEN /\ attempt' = attempt + 1 /\ status' = a.entry[5]
                    /\ last_call' = [addr |-> addr, resp |-> resp, result |-> << >>]
                    /\ UNCHANGED <<pos, cache, checkpoint>>
               ELSE /\ attempt' = 0 /\ status' = "no_match" /\ pos' = pos + 1
                    /\ last_call' = [addr |-> addr, resp |-> resp, result |-> a.entry]
                    /\ cache' = cache1
                    /\ checkpoint' = IF Cardinality(DOMAIN cache1) % CheckpointEvery = 0
                                     THEN save_checkpoint(cache1) ELSE checkpoint
    /\ UNCHANGED <<script, pc, oracle, runs, in_csv, out_csv, addresses>>
    /\ UNCHANGED not_retry

\* lines 107-109 and 144-165: final save, geocode_unique returns, retry_file writes its output
retry_file_finish ==
    /\ script = "retry" /\ pc = "loop" /\ pos = Len(addresses)
    /\ checkpoint' = save_checkpoint(cache)
    /\ out_csv' = Written(retry_merge(read_csv(in_csv), cache))
    /\ pc' = "returned"
    /\ UNCHANGED <<script, oracle, calls, run_calls, last_call, runs, in_csv>>
    /\ UNCHANGED <<addresses, pos, attempt, status, cache>>
    /\ UNCHANGED not_retry

\* the process is stopped during the loop: its memory is lost
retry_file_interrupt ==
    /\ script = "retry" /\ pc = "loop"
    /\ pc' = "idle"
    /\ addresses' = << >> /\ pos' = 0 /\ attempt' = 0 /\ status' = "no_match" /\ cache' = EmptyDict
    /\ last_call' = NoCall /\ run_calls' = EmptyDict
    /\ UNCHANGED <<script, oracle, calls, runs, in_csv, out_csv, checkpoint>>
    /\ UNCHANGED not_retry

\* the rows np_geocoded.csv can hold: stage-1 results joined to the input rows, and
\* the rows of a blank oneline and of a oneline whose key the cache lost, which the
\* left join leaves empty
InAnswers == {Answer(<<M_county, M_other>>), Answer(<<M_no_geoid>>)}
InRows == {geocode_one(a, r) : a \in InAddrs, r \in InAnswers}
          \cup {Row("", None4, NaN), Row(NaAddr, None4, NaN)}
RECURSIVE SeqsUpTo(_, _)
SeqsUpTo(S, n) == IF n = 0 THEN {<< >>}
                  ELSE LET T == SeqsUpTo(S, n - 1)
                       IN T \cup {Append(q, x) : q \in {t \in T : Len(t) = n - 1}, x \in S}
InFiles == {to_csv(f) : f \in SeqsUpTo(InRows, MaxRows)}

(***************************************************************************)
(* 01_zip_fallback.py                                                      *)
(***************************************************************************)
\* re.search(r"(\d{5})(?:-\d{4})?\b", s) from position k on: group 1, or None
FiveDigits(s, k) == \A d \in 0..4 : IsDigit(At(s, k + d))
Plus4(s, k) == At(s, k) = "-" /\ \A d \in 1..4 : IsDigit(At(s, k + d))
RECURSIVE zip_search(_, _)
zip_search(s, k) ==
    IF k + 4 > Len(s) THEN None
    ELSE IF /\ FiveDigits(s, k)
            /\ \/ Plus4(s, k + 5) /\ Boundary(s, k + 10)
               \/ Boundary(s, k + 5)
    THEN SubSeq(s, k, k + 4)
    ELSE zip_search(s, k + 1)
extract_zip5(s) == zip_search(PyStr(s), 1)
Zip5 == [x \in InAddrs \cup {NaN} |-> extract_zip5(x)]

\* what pgeocode's query_postal_code and the FCC block API can answer
CentroidAnswers == {[latitude |-> "f:33.75", longitude |-> "f:-84.39"],
                    [latitude |-> NaN, longitude |-> NaN]}
FccAnswers ==
    {[kind |-> "raise"],
     [kind |-> "return", data |-> [County |-> [FIPS |-> "13121", name |-> "Fulton County"]]],
     [kind |-> "return", data |-> [County |-> [FIPS |-> "13089"]]],
     [kind |-> "return", data |-> [County |-> [FIPS |-> "01001", name |-> "Autauga County"]]],
     [kind |-> "return", data |-> [status |-> "OK"]]}

zip_to_centroid(rec) ==
    IF rec.latitude = NaN \/ rec.longitude = NaN THEN <<None, None>>
    ELSE <<rec.latitude, rec.longitude>>

StartsWith(s, w) == Len(s) >= Len(w) /\ SubSeq(s, 1, Len(w)) = w
\* fcc_county without the test for Georgia
fcc_county_any_state(resp) ==
    IF resp.kind = "raise" THEN <<None, None>>
    ELSE LET county == Get(resp.data, "County", EmptyDict)
             fips == Get(county, "FIPS", None)
         IN IF Truthy(fips) THEN <<fips, Get(county, "name", None)>> ELSE <<None, None>>
fcc_county(resp) ==
    IF resp.kind = "raise" THEN <<None, None>>
    ELSE LET county == Get(resp.data, "County", EmptyDict)
             fips == Get(county, "FIPS", None)
             name == Get(county, "name", None)
         IN IF Truthy(fips) /\ StartsWith(fips, "13") THEN <<fips, name>> ELSE <<None, None>>

\* lines 80-85: the cache entry for one ZIP; the FCC is asked only for a centroid
zip_entry(rec, resp) ==
    LET ll == zip_to_centroid(rec)
        fn == IF ll[1] # None /\ ll[2] # None THEN fcc_county(resp) ELSE <<None, None>>
    IN <<fn[1], fn[2], ll[1], ll[2]>>

\* load_cache finding no usable file
zip_load_cache_nothing(file) == EmptyDict
zip_load_cache(file) == IF file.exists /\ file.valid THEN json_loads(file.text) ELSE EmptyDict
zip_save_cache(d) == [exists |-> TRUE, valid |-> TRUE, text |-> json_dumps(d)]

\* zip_miss without the test of the status
zip_miss_any_status(df) == [k \in DOMAIN df |-> Zip5[df[k].oneline] # None]
\* lines 56-66: the rows the fallback works on
zip_miss(df) == [k \in DOMAIN df |-> miss_mask(df)[k] /\ Zip5[df[k].oneline] # None]
\* zip_row applying the fallback whenever the ZIP has a centroid
zip_row_any_centroid(row, d) ==
    LET v == Get(d, Zip5[row.oneline], None4)
    IN IF v[3] # None
       THEN [oneline |-> row.oneline, county_fips |-> v[1], county_name |-> v[2],
             lat |-> v[3], lon |-> v[4], status |-> "zip_fallback"]
       ELSE row
\* lines 93-110: map the cache back onto the rows
zip_row(row, d) ==
    LET v == Get(d, Zip5[row.oneline], None4)
    IN IF v[1] # None
       THEN [oneline |-> row.oneline, county_fips |-> v[1], county_name |-> v[2],
             lat |-> v[3], lon |-> v[4], status |-> "zip_fallback"]
       ELSE row
zip_apply(df, d) == [k \in DOMAIN df |-> IF zip_miss(df)[k] THEN zip_row(df[k], d) ELSE df[k]]

ZipInput == IF file_no = 1 THEN in_csv ELSE phys_csv
SetOut(frame) == [zip_out EXCEPT ![file_no] = Written(frame)]

\* lines 51-77: apply_zip_fallback up to its loop; without unmatched rows that
\* have a ZIP it writes an unchanged copy and returns
apply_zip_fallback_start ==
    /\ script = "zip"
    /\ \/ /\ pc \in {"idle", "returned"} /\ runs < MaxRuns
          /\ runs' = runs + 1 /\ file_no' = 1 /\ run_calls' = EmptyDict
       \/ pc = "next" /\ runs' = runs /\ file_no' = 2 /\ run_calls' = run_calls
    /\ LET df == read_csv(IF file_no' = 1 THEN in_csv ELSE phys_csv)
           loaded == zip_load_cache(zip_cache)
           zips == Unique(LET m == Select(df, zip_miss(df), TRUE)
                          IN [k \in DOMAIN m |-> Zip5[m[k].oneline]])
       IN IF zips = << >>
          THEN /\ zip_out' = [zip_out EXCEPT ![file_no'] = Written(df)]
               /\ pc' = IF file_no' = 1 THEN "next" ELSE "returned"
               /\ cache' = EmptyDict /\ need' = << >>
          ELSE /\ cache' = loaded
               /\ need' = SelectSeq(zips, LAMBDA z : z \notin DOMAIN loaded)
               /\ pc' = "loop" /\ zip_out' = zip_out
    /\ i' = 0
    /\ UNCHANGED <<script, calls, in_csv, phys_csv, zip_cache, fcc_calls>>
    /\ UNCHANGED not_zip

\* lines 79-89: one iteration of the loop over need
apply_zip_fallback_loop ==
    /\ script = "zip" /\ pc = "loop" /\ i < Len(need)
    /\ \E rec \in CentroidAnswers, resp \in FccAnswers :
         LET z == need[i + 1]
             e == zip_entry(rec, resp)
             cache1 == [x \in DOMAIN cache \cup {z} |-> IF x = z THEN e ELSE cache[x]]
         IN /\ calls' = Called(z) /\ run_calls' = RunCalled(z)
            /\ fcc_calls' = IF e[3] # None
                            THEN [x \in DOMAIN fcc_calls \cup {z} |->
                                    IF x = z THEN Get(fcc_calls, z, 0) + 1 ELSE fcc_calls[x]]
                            ELSE fcc_calls
            /\ cache' = cache1
            /\ zip_cache' = IF (i + 1) % ZipSaveEvery = 0 THEN zip_save_cache(cache1) ELSE zip_cache
    /\ i' = i + 1
    /\ UNCHANGED <<script, pc, runs, in_csv, phys_csv, zip_out, file_no, need>>
    /\ UNCHANGED not_zip

\* lines 91-113: save the cache, map back, write the output
apply_zip_fallback_finish ==
    /\ script = "zip" /\ pc = "loop" /\ i = Len(need)
    /\ zip_cache' = zip_save_cache(cache)
    /\ zip_out' = SetOut(zip_apply(read_csv(ZipInput), cache))
    /\ pc' = IF file_no = 1 THEN "next" ELSE "returned"
    /\ UNCHANGED <<script, calls, run_calls, runs, in_csv, phys_csv, file_no, need, fcc_calls, i, cache>>
    /\ UNCHANGED not_zip

\* the process is stopped during the loop: its memory is lost
apply_zip_fallback_interrupt ==
    /\ script = "zip" /\ pc = "loop"
    /\ pc' = "idle" /\ need' = << >> /\ i' = 0 /\ cache' = EmptyDict /\ run_calls' = EmptyDict
    /\ UNCHANGED <<script, calls, runs, in_csv, phys_csv, zip_cache, zip_out, file_no, fcc_calls>>
    /\ UNCHANGED not_zip

PhysFiles == {to_csv(f) : f \in SeqsUpTo(InRows, MaxPhysRows)}

vars == <<script, pc, oracle, series, calls, run_calls, last_call, runs, text, once, twice,
          cache_file, cache_path, save_every, unique, to_do, i, rows, cached, returned,
          in_csv, out_csv, checkpoint, addresses, pos, attempt, status, cache,
          phys_csv, zip_cache, zip_out, file_no, need, fcc_calls, dashvars>>

InitZip ==
    /\ phys_csv \in (IF script = "zip" THEN PhysFiles ELSE {<< >>})
    /\ zip_cache = NoFile /\ zip_out = <<NotWritten, NotWritten>>
    /\ file_no = 1 /\ need = << >> /\ fcc_calls = EmptyDict

(***************************************************************************)
(* app_dash.py: the layout and the callbacks update_map and pick_county.   *)
(* A Python dict is a function from its keys; the value None of clickData  *)
(* is the record NoClick.                                                  *)
(***************************************************************************)
\* tbl: county_fips -> county_type after fillna("Unknown"), in the order of the features
CountyFips == <<"13001", "13003", "13121">>
CountyType == [f \in Range(CountyFips) |->
                 IF f = "13001" THEN "Rural" ELSE IF f = "13121" THEN "Urban" ELSE "Unknown"]
DEFAULT_FIPS == CountyFips[1]
metric_options == <<"np_count", "np_density_10k", "doc_np_ratio">>
type_filter_options == {"All", "Rural", "Urban", "Unknown"}
title_map == [m \in Range(metric_options) |->
                IF m = "np_count" THEN "NP Workforce by County (Count)"
                ELSE IF m = "np_density_10k" THEN "NP Workforce by County (per 10k)"
                ELSE "Doctor:NP Ratio by County"]
NoFigure == [locations |-> {}, color |-> None]
NoClick == [none |-> TRUE]

\* str.zfill(width): zeros go after a leading sign, a string of the width or longer is kept
RECURSIVE Zeros(_)
Zeros(n) == IF n <= 0 THEN "" ELSE "0" \o Zeros(n - 1)
zfill(s, width) ==
    IF Len(s) >= width THEN s
    ELSE IF Len(s) >= 1 /\ Ch(s, 1) \in {"+", "-"}
         THEN Ch(s, 1) \o Zeros(width - Len(s)) \o SubSeq(s, 2, Len(s))
         ELSE Zeros(width - Len(s)) \o s

\* the figure of make_map: the counties it draws and the column that colours them
make_map(df, m) == [locations |-> df, color |-> m]
update_map(m, t) ==
    LET df == IF t # None /\ t # "" /\ t # "All"
              THEN {f \in Range(CountyFips) : CountyType[f] = t}
              ELSE Range(CountyFips)
    IN  <<make_map(df, m), Get(title_map, m, "NP Workforce by County")>>

pick_county_no_pad(cd, cur) ==
    IF cd # NoClick /\ DOMAIN cd # {} /\ "points" \in DOMAIN cd /\ cd.points # << >>
    THEN LET loc == Get(cd.points[1], "location", None)
         IN  IF Truthy(loc) THEN loc ELSE cur
    ELSE cur

pick_county(cd, cur) ==
    IF cd # NoClick /\ DOMAIN cd # {} /\ "points" \in DOMAIN cd /\ cd.points # << >>
    THEN LET loc == Get(cd.points[1], "location", None)
         IN  IF Truthy(loc) THEN zfill(loc, 5) ELSE cur
    ELSE cur

InitDash ==
    /\ selected_fips = DEFAULT_FIPS /\ clickData = NoClick
    /\ metric = metric_options[1] /\ type_filter = "All"
    /\ ga_map = NoFigure /\ map_title = title_map["np_count"]

InitCounters ==
    /\ calls = EmptyDict /\ run_calls = EmptyDict /\ last_call = NoCall /\ runs = 0
    /\ once = "" /\ twice = ""
    /\ InitDash

InitGeocode ==
    /\ cache_file = << >>
    /\ cache_path \in (IF script = "geocode" THEN BOOLEAN ELSE {TRUE})
    /\ save_every \in (IF script = "geocode" THEN 1..MaxSaveEvery ELSE {1})
    /\ unique = << >> /\ to_do = << >> /\ i = 0 /\ rows = << >> /\ cached = << >> /\ returned = << >>

InitRetry ==
    /\ in_csv \in (IF script \in {"retry", "zip"} THEN InFiles ELSE {<< >>})
    /\ out_csv = NotWritten /\ checkpoint = NoFile
    /\ addresses = << >> /\ pos = 0 /\ attempt = 0 /\ status = "no_match" /\ cache = EmptyDict

Init ==
    /\ script \in {"geocode", "retry", "zip"}
    /\ pc = "idle" /\ oracle = AnyAnswer /\ series = AnySeries /\ text = ""
    /\ InitCounters
    /\ InitGeocode
    /\ InitRetry
    /\ InitZip

Next ==
    \/ geocode_addresses_start
    \/ geocode_addresses_loop
    \/ geocode_addresses_return
    \/ geocode_addresses_interrupt
    \/ retry_file_start
    \/ geocode_unique_skip
    \/ geocode_unique_attempt
    \/ retry_file_finish
    \/ retry_file_interrupt
    \/ apply_zip_fallback_start
    \/ apply_zip_fallback_loop
    \/ apply_zip_fallback_finish
    \/ apply_zip_fallback_interrupt

Spec == Init /\ [][Next]_vars

\* the runs of 01_geocode_addresses.py alone
InitGeocodeOnly == script = "geocode" /\ Init
NextGeocode ==
    \/ geocode_addresses_start
    \/ geocode_addresses_loop
    \/ geocode_addresses_return
    \/ geocode_addresses_interrupt
SpecGeocode == InitGeocodeOnly /\ [][NextGeocode]_vars

(***************************************************************************)
(* The first stage and the retry stage: calls, failures, recorded results  *)
(***************************************************************************)
Empty(v) == v \in {None, NaN, ""}
ErrorStatuses == {"error:" \o t : t \in ExcTypes}
IsRaise == last_call.addr # None /\ last_call.resp.kind = "raise"
RowsOf(addr, frame) == {k \in DOMAIN frame : frame[k].oneline = addr}
\* the addresses of rows k+1 .. Len(frame) of a frame
Onelines(frame, k) == [j \in 1..(Len(frame) - k) |-> frame[k + j].oneline]

\* C1: with a cache file, stage 1 calls the service at most once for any address,
\* over all the runs that share the file, interrupted runs included.
C1_AtMostOneCall ==
    (script = "geocode" /\ cache_path) => \A a \in DOMAIN calls : calls[a] <= 1

C3_FailureNeverAborts ==
    /\ (script = "geocode" /\ IsRaise) =>
          /\ pc \in {"loop", "returned"}
          /\ last_call.result = Row(last_call.addr, None4, "error:" \o last_call.resp.exc)
          /\ to_do[i] = last_call.addr
          /\ last_call.result \in Range(rows \o cached)
    /\ (script = "geocode" /\ pc = "returned") =>
          IF cache_path
          THEN /\ Len(cache_file) >= Len(to_do) /\ Len(returned) = Len(cache_file)
               /\ Onelines(cache_file, Len(cache_file) - Len(to_do)) = to_do
          ELSE \A k \in DOMAIN to_do : Cardinality(RowsOf(to_do[k], returned)) = 1
    /\ (script = "retry" /\ IsRaise) =>
          /\ pc \in {"loop", "returned"}
          /\ IF last_call.result = << >>
             THEN /\ addresses[pos + 1] = last_call.addr
                  /\ attempt = RunCount(last_call.addr) /\ attempt <= max_retries
             ELSE /\ addresses[pos] = last_call.addr
                  /\ RunCount(last_call.addr) = max_retries + 1
                  /\ cache[last_call.addr] = None4 \o <<"error:" \o last_call.resp.exc>>
    /\ (script = "retry" /\ pc = "returned") =>
          /\ out_csv.exists
          /\ \A k \in DOMAIN addresses :
                addresses[k] \in DOMAIN cache \cap DOMAIN checkpoint.text

\* stage 1 has returned after the service raised for the first of two addresses
C3_Witness ==
    /\ script = "geocode" /\ pc = "returned" /\ Len(to_do) = 2
    /\ \E k \in DOMAIN returned :
          returned[k].oneline = to_do[1] /\ returned[k].status = "error:Timeout"
    /\ Cardinality(RowsOf(to_do[2], returned)) = 1

Stage1Rows == Range(rows \o cached \o returned) \cup
              (IF script = "geocode" /\ last_call.addr # None THEN {last_call.result} ELSE {})

\* C8 as stated: a stage-1 result has one of the four statuses, is "matched" exactly
\* when it has a non-empty county FIPS, and with any other status has county_fips,
\* county_name, lat and lon all empty.
C8_OnlyStatusRecorded ==
    \A r \in Stage1Rows :
       /\ r.status \in {"matched", "no_match", "no_county"} \cup ErrorStatuses
       /\ r.status = "matched" <=> ~Empty(r.county_fips)
       /\ r.status # "matched" =>
             Empty(r.county_fips) /\ Empty(r.county_name) /\ Empty(r.lat) /\ Empty(r.lon)

\* C8: a stage-1 result has one of the four statuses and is "matched" exactly when
\* it has a non-empty county FIPS; with status "no_match" or "error:<ExceptionType>"
\* county_fips, county_name, lat and lon are all empty; with status "no_county" the
\* county FIPS is empty (name, lat and lon are those of the first address match).
C8_StatusAndFields ==
    \A r \in Stage1Rows :
       /\ r.status \in {"matched", "no_match", "no_county"} \cup ErrorStatuses
       /\ r.status = "matched" <=> ~Empty(r.county_fips)
       /\ r.status \in {"no_match"} \cup ErrorStatuses =>
             Empty(r.county_fips) /\ Empty(r.county_name) /\ Empty(r.lat) /\ Empty(r.lon)

\* a returned frame holds a "no_county" row with coordinates and a "matched" row
C8_Witness ==
    /\ script = "geocode" /\ pc = "returned"
    /\ \E k \in DOMAIN returned : returned[k].status = "no_county" /\ ~Empty(returned[k].lat)
    /\ \E k \in DOMAIN returned : returned[k].status = "matched" /\ ~Empty(returned[k].county_name)

(***************************************************************************)
(* The ZIP fallback and the three caches                                   *)
(***************************************************************************)
ResultCols == {"county_fips", "county_name", "lat", "lon", "status"}
ZipInputOf(f) == IF f = 1 THEN in_csv ELSE phys_csv

\* C4: in the output of apply_zip_fallback every row whose input status is "matched"
\* has the county_fips, county_name, lat, lon and status of the input row, whatever
\* the ZIP cache and the lookups return.
C4_MatchedRowsUnchanged ==
    script = "zip" =>
       \A f \in 1..2 :
          zip_out[f].exists =>
             /\ Len(zip_out[f].rows) = Len(ZipInputOf(f))
             /\ \A k \in DOMAIN ZipInputOf(f) :
                   ZipInputOf(f)[k].status = "matched" =>
                      \A c \in ResultCols : zip_out[f].rows[k][c] = ZipInputOf(f)[k][c]

\* an output where a row became "zip_fallback" next to a matched row of the same ZIP
C4_Witness ==
    /\ script = "zip" /\ zip_out[1].exists
    /\ \E k, j \in DOMAIN in_csv :
          /\ in_csv[k].status = "matched"
          /\ in_csv[j].status # "matched"
          /\ Zip5[read_csv_cell(in_csv[k].oneline)] = Zip5[read_csv_cell(in_csv[j].oneline)]
          /\ zip_out[1].rows[j].status = "zip_fallback"
          /\ zip_out[1].rows[k] = in_csv[k]

IsPrefix(p, q) == Len(p) <= Len(q) /\ SubSeq(q, 1, Len(p)) = p
KeepsEntries(f, g) == \A a \in DOMAIN f.text : a \in DOMAIN g.text /\ g.text[a] = f.text[a]

\* C7: no step of a stage removes or changes an entry of its cache file: the rows of
\* the stage-1 CSV cache stay as a prefix of the file, and every key of the retry
\* checkpoint and of the ZIP cache keeps its stored value.
C7_AppendOnly ==
    [][/\ IsPrefix(cache_file, cache_file')
       /\ KeepsEntries(checkpoint, checkpoint')
       /\ KeepsEntries(zip_cache, zip_cache')]_vars

\* a second run of stage 1 has appended a row to a cache file that held one
C7_Witness ==
    /\ script = "geocode" /\ cache_path /\ runs = 2 /\ pc = "returned"
    /\ Len(to_do) = 1 /\ Len(cache_file) = 2
    /\ cache_file[2].oneline = to_do[1]

(***************************************************************************)
(* The normalisation functions, applied to a value and to their own result *)
(***************************************************************************)
RECURSIVE Concats(_, _)
Concats(S, n) == IF n = 0 THEN {""}
                 ELSE LET T == Concats(S, n - 1)
                      IN T \cup {q \o x : q \in {t \in T : Len(t) >= n - 1}, x \in S}

\* addresses: up to MaxTokens tokens
Tokens == {"1", "Ab", "STE", "SUITE", "UNIT", "APT", "#", "GA", "30303", ",", " "}
TokenStrings == Concats(Tokens, MaxTokens)
\* cell values: up to MaxLen characters, or a missing value
CleanChars == {"a", " ", "\t", NBSP}
CellValues == Concats(CleanChars, MaxLen) \cup {NaN, None}

\* 01_retry_no_match.py line 138: canonicalize_address is applied to a cell
canonicalize_address_call ==
    /\ script = "canonicalize_address" /\ pc = "idle"
    /\ once' = canonicalize_address(text) /\ pc' = "once"
    /\ UNCHANGED <<script, oracle, series, calls, run_calls, last_call, runs, dashvars, text, twice,
                   s1vars, in_csv, rtvars, zipvars>>
\* and to its own result
canonicalize_address_again ==
    /\ script = "canonicalize_address" /\ pc = "once"
    /\ twice' = canonicalize_address(once) /\ pc' = "twice"
    /\ UNCHANGED <<script, oracle, series, calls, run_calls, last_call, runs, dashvars, text, once,
                   s1vars, in_csv, rtvars, zipvars>>

\* 01_geocode_addresses.py lines 207-212: clean_str is applied to a cell
clean_str_call ==
    /\ script = "clean_str" /\ pc = "idle"
    /\ once' = clean_str(text) /\ pc' = "once"
    /\ UNCHANGED <<script, oracle, series, calls, run_calls, last_call, runs, dashvars, text, twice,
                   s1vars, in_csv, rtvars, zipvars>>
\* and to its own result
clean_str_again ==
    /\ script = "clean_str" /\ pc = "once"
    /\ twice' = clean_str(once) /\ pc' = "twice"
    /\ UNCHANGED <<script, oracle, series, calls, run_calls, last_call, runs, dashvars, text, once,
                   s1vars, in_csv, rtvars, zipvars>>

InitCanonicalize ==
    /\ script = "canonicalize_address" /\ text \in TokenStrings
    /\ pc = "idle" /\ oracle = AnyAnswer /\ series = AnySeries
    /\ InitCounters /\ InitGeocode /\ InitRetry /\ InitZip
NextCanonicalize == canonicalize_address_call \/ canonicalize_address_again
SpecCanonicalize == InitCanonicalize /\ [][NextCanonicalize]_vars

InitCleanStr ==
    /\ script = "clean_str" /\ text \in CellValues
    /\ pc = "idle" /\ oracle = AnyAnswer /\ series = AnySeries
    /\ InitCounters /\ InitGeocode /\ InitRetry /\ InitZip
NextCleanStr == clean_str_call \/ clean_str_again
SpecCleanStr == InitCleanStr /\ [][NextCleanStr]_vars

\* C9: canonicalize_address is idempotent: applied to its own result it returns
\* the result unchanged, for every address built from the tokens.
C9_Idempotent ==
    (script = "canonicalize_address" /\ pc = "twice") => twice = once

NoSpaceAtEnds(t) == t = "" \/ (~IsSpace(Head(t)) /\ ~IsSpace(Ch(t, Len(t))))
NoNbsp(t) == \A k \in 1..Len(t) : Ch(t, k) # NBSP
NoSpaceRun(t) == \A k \in 1..Len(t) : ~(IsSpace(Ch(t, k)) /\ IsSpace(At(t, k + 1)))

\* C10: clean_str is idempotent, and its result has no leading or trailing
\* whitespace, no non-breaking space and no run of two or more whitespace
\* characters; a missing value gives the empty string.
C10_CleanStr ==
    /\ (script = "clean_str" /\ pc \in {"once", "twice"}) =>
          /\ NoSpaceAtEnds(once) /\ NoNbsp(once) /\ NoSpaceRun(once)
          /\ text \in {NaN, None} => once = ""
    /\ (script = "clean_str" /\ pc = "twice") => twice = once

\* clean_str has been applied twice to a value with a leading space and a
\* non-breaking space next to a space
C10_Witness ==
    /\ script = "clean_str" /\ pc = "twice"
    /\ text = " a" \o NBSP \o " a" /\ once = "a a"

(***************************************************************************)
(* Stop and restart, with a service that answers each address one way      *)
(***************************************************************************)
ResumeAnswers == {Raise("Timeout"), Answer(<< >>), Answer(<<M_county, M_other>>),
                  Answer(<<M_no_geoid>>)}
RetryKeys == {Canonical[x] : x \in InAddrs \cup {NaN}}

InitResume ==
    /\ script \in {"geocode", "retry"}
    /\ pc = "idle" /\ text = ""
    /\ oracle \in {[fixed |-> TRUE, answer |-> f] :
                      f \in [IF script = "geocode" THEN Addrs ELSE RetryKeys -> ResumeAnswers]}
    /\ series \in (IF script = "geocode"
                    THEN {[fixed |-> TRUE, addrs |-> S] : S \in SUBSET Addrs}
                    ELSE {AnySeries})
    /\ InitCounters
    /\ cache_file = << >> /\ cache_path = TRUE
    /\ save_every \in (IF script = "geocode" THEN 1..MaxSaveEvery ELSE {1})
    /\ unique = << >> /\ to_do = << >> /\ i = 0 /\ rows = << >> /\ cached = << >> /\ returned = << >>
    /\ InitRetry
    /\ InitZip

NextResume ==
    \/ geocode_addresses_start
    \/ geocode_addresses_loop
    \/ geocode_addresses_return
    \/ geocode_addresses_interrupt
    \/ retry_file_start
    \/ geocode_unique_skip
    \/ geocode_unique_attempt
    \/ retry_file_finish
    \/ retry_file_interrupt

SpecResume == InitResume /\ [][NextResume]_vars

\* what one uninterrupted run on an empty cache returns
UninterruptedStage1 ==
    LET u == Sorted(series.addrs)
    IN read_csv(to_csv([k \in DOMAIN u |-> geocode_one(u[k], oracle.answer[u[k]])]))
UninterruptedEntry(a) ==
    IF oracle.answer[a].kind = "raise" THEN None4 \o <<"error:" \o oracle.answer[a].exc>>
    ELSE geocode_attempt(oracle.answer[a], "no_match", 0).entry
UninterruptedRetry ==
    LET df == read_csv(in_csv)
        miss == Select(df, miss_mask(df), TRUE)
    IN [a \in {oneline_retry(miss[k]) : k \in DOMAIN miss} |-> UninterruptedEntry(a)]

\* C6: with a service that answers each address the same way every time, a run of
\* geocode_addresses or of geocode_unique that returns, after any number of stopped
\* runs on the same input and the same cache file, returns the mapping one
\* uninterrupted run returns (the same rows, and for every address as many rows with
\* that key), and leaves the same checkpoint and the same output file.
C6_ResumeSameResult ==
    /\ (script = "geocode" /\ pc = "returned") =>
          /\ Range(returned) = Range(UninterruptedStage1)
          /\ Range(read_csv(cache_file)) = Range(UninterruptedStage1)
          /\ \A a \in series.addrs :
                Cardinality(RowsOf(a, returned)) = Cardinality(RowsOf(a, UninterruptedStage1))
    /\ (script = "retry" /\ pc = "returned") =>
          /\ cache = UninterruptedRetry
          /\ load_checkpoint(checkpoint) = UninterruptedRetry
          /\ out_csv = Written(retry_merge(read_csv(in_csv), UninterruptedRetry))

\* stage 1 has returned in its second run, the first one stopped after a flush,
\* with two addresses to geocode
C6_Witness ==
    /\ script = "geocode" /\ pc = "returned" /\ runs = 2
    /\ Len(to_do) = 1 /\ Len(returned) = 2
    /\ series.addrs = {AddrList[1], AddrList[2]}
    /\ calls = [a \in series.addrs |-> 1]

(***************************************************************************)
(* The passes in a row: each script run to its end on the NP file (the     *)
(* physician file goes the same way)                                       *)
(***************************************************************************)
\* what geocode_unique can store for an address, and apply_zip_fallback for a ZIP
RetryEntries == {geocode_attempt(r, st, max_retries).entry :
                    r \in Responses, st \in {"no_match"} \cup ErrorStatuses}
ZipEntries == {zip_entry(rec, resp) : rec \in CentroidAnswers, resp \in FccAnswers}

\* 01_retry_no_match.py, main: np_geocoded.csv -> np_geocoded_improved.csv
retry_main ==
    /\ script = "pipeline" /\ pc = "idle"
    /\ LET df == read_csv(in_csv)
           miss == Select(df, miss_mask(df), TRUE)
       IN \E addr_map \in [{oneline_retry(miss[k]) : k \in DOMAIN miss} -> RetryEntries] :
             /\ out_csv' = Written(retry_merge(df, addr_map))
             /\ checkpoint' = IF miss = << >> THEN checkpoint ELSE save_checkpoint(addr_map)
    /\ pc' = "retried"
    /\ UNCHANGED <<script, oracle, series, calls, run_calls, last_call, runs, dashvars, normvars,
                   s1vars, in_csv, addresses, pos, attempt, status, cache, zipvars>>

\* 01_zip_fallback.py, main: np_geocoded.csv -> np_geocoded_zip.csv
zip_fallback_main ==
    /\ script = "pipeline" /\ pc = "retried"
    /\ LET df == read_csv(in_csv)
           m == Select(df, zip_miss(df), TRUE)
       IN \E d \in [{Zip5[m[k].oneline] : k \in DOMAIN m} -> ZipEntries] :
             /\ zip_out' = [zip_out EXCEPT ![1] = Written(zip_apply(df, d))]
             /\ zip_cache' = IF m = << >> THEN zip_cache ELSE zip_save_cache(d)
    /\ pc' = "zipped"
    /\ UNCHANGED <<script, oracle, series, calls, run_calls, last_call, runs, dashvars, normvars,
                   s1vars, in_csv, rtvars, phys_csv, file_no, need, fcc_calls>>

InitPipeline ==
    /\ script = "pipeline" /\ pc = "idle" /\ text = ""
    /\ oracle = AnyAnswer /\ series = AnySeries
    /\ InitCounters /\ InitGeocode /\ InitZip
    /\ in_csv \in InFiles
    /\ out_csv = NotWritten /\ checkpoint = NoFile
    /\ addresses = << >> /\ pos = 0 /\ attempt = 0 /\ status = "no_match" /\ cache = EmptyDict
NextPipeline == retry_main \/ zip_fallback_main
SpecPipeline == InitPipeline /\ [][NextPipeline]_vars

Matched(file) == {k \in DOMAIN file : file[k].status = "matched"}

\* C5: the retry pass works on exactly the rows of the stage-1 output that are not
\* "matched", and the ZIP fallback on exactly the rows the retry pass left
\* unmatched: a row the retry pass matched is in the final output as it is in
\* the retry pass's output.
C5_PassesChain ==
    /\ pc \in {"retried", "zipped"} =>
          /\ Len(out_csv.rows) = Len(in_csv)
          /\ \A k \in Matched(in_csv) : \E j \in DOMAIN out_csv.rows : out_csv.rows[j] = in_csv[k]
    /\ pc = "zipped" =>
          /\ Len(zip_out[1].rows) = Len(out_csv.rows)
          /\ \A k \in Matched(out_csv.rows) :
                \E j \in DOMAIN zip_out[1].rows : zip_out[1].rows[j] = out_csv.rows[k]

(***************************************************************************)
(* The ZIP fallback: lookups and Georgia                                   *)
(***************************************************************************)
\* C11: over the two files of main and all the runs that share
\* zip_fallback_cache.json, the centroid lookup and the FCC lookup are made at most
\* once for any ZIP.
C11_AtMostOneLookup ==
    script = "zip" =>
       /\ \A z \in DOMAIN calls : calls[z] <= 1
       /\ \A z \in DOMAIN fcc_calls : fcc_calls[z] <= 1

(***************************************************************************)
(* Stage 1: the returned frame and the flushes                             *)
(***************************************************************************)
\* the onelines of up to two input rows of main: addresses of the series and blanks
JoinInputs == SeqsUpTo(Range(unique) \cup {"", " "}, 2)

\* C12: when geocode_addresses has returned, every distinct non-blank string of
\* the input series is the oneline of exactly one row of the returned frame, and
\* the left join of input rows with the frame has one row per input row.
C12_OneRowPerAddress ==
    (script = "geocode" /\ pc = "returned") =>
       /\ \A k \in DOMAIN unique : Cardinality(RowsOf(unique[k], returned)) = 1
       /\ \A q \in JoinInputs : Len(merge_left(q, returned)) = Len(q)

\* C13: in geocode_addresses with a cache path, between two iterations fewer than
\* save_every results are in memory only, the results computed before the last
\* flush are the last rows of the cache file, in order, and when the function has
\* returned every computed result is in the cache file.
C13_FlushedPeriodically ==
    /\ (script = "geocode" /\ cache_path /\ pc = "loop") =>
          /\ Len(rows) < save_every
          /\ Len(rows) = i % save_every
          /\ Onelines(rows, 0) = SubSeq(to_do, i - Len(rows) + 1, i)
          /\ Len(cache_file) >= i - Len(rows)
          /\ Onelines(cache_file, Len(cache_file) - (i - Len(rows)))
                = SubSeq(to_do, 1, i - Len(rows))
          /\ read_csv(cache_file) = read_csv(to_csv(cached))
          /\ i > 0 => last_call.result =
                        (IF rows # << >> THEN rows[Len(rows)] ELSE cached[Len(cached)])
    /\ (script = "geocode" /\ cache_path /\ pc = "returned") =>
          /\ rows = << >>
          /\ Len(cache_file) >= Len(to_do)
          /\ Onelines(cache_file, Len(cache_file) - Len(to_do)) = to_do
          /\ i > 0 => cache_file[Len(cache_file)] = to_csv(<<last_call.result>>)[1]

\* a flush has happened in the loop: two results computed, both in the file
C13_Witness ==
    /\ script = "geocode" /\ cache_path /\ pc = "loop"
    /\ save_every = 2 /\ i = 2 /\ rows = << >> /\ Len(cache_file) = 2

(***************************************************************************)
(* The retry pass: rows, columns, statuses, attempts                       *)
(***************************************************************************)
\* the rows of a CSV file whose oneline pandas reads as a
RowsWith(file, a) == {k \in DOMAIN file : read_csv_cell(file[k].oneline) = a}
Unmatched(file) == {k \in DOMAIN file : file[k].status # "matched"}

ReceivedFips(resp) ==
    IF resp.kind = "raise" THEN None
    ELSE Get(Get(resp.data, "County", EmptyDict), "FIPS", None)
ZipCacheEntries == IF zip_cache.exists /\ zip_cache.valid THEN json_loads(zip_cache.text) ELSE EmptyDict
ZipFallbackRows(n) == {k \in DOMAIN zip_out[n].rows : zip_out[n].rows[k].status = "zip_fallback"}

\* C15: fcc_county returns a county only for a FIPS starting with "13"; the FIPS of
\* every entry of the ZIP cache file is null or starts with "13"; every written row
\* with status "zip_fallback" has a county_fips starting with "13".
C15_GeorgiaOnly ==
    script = "zip" =>
       /\ \A resp \in FccAnswers :
             fcc_county(resp)[1] # None =>
                /\ ReceivedFips(resp) # None /\ StartsWith(ReceivedFips(resp), "13")
                /\ fcc_county(resp)[1] = ReceivedFips(resp)
       /\ \A z \in DOMAIN ZipCacheEntries :
             ZipCacheEntries[z][1] = None \/ StartsWith(ZipCacheEntries[z][1], "13")
       /\ \A n \in 1..2 : \A k \in ZipFallbackRows(n) :
             StartsWith(zip_out[n].rows[k].county_fips, "13")

\* the cache file holds a ZIP the FCC was asked about without a Georgia county and a
\* ZIP with one, and a row has been written with status "zip_fallback"
C15_Witness ==
    /\ script = "zip"
    /\ \E z \in DOMAIN ZipCacheEntries : ZipCacheEntries[z][1] = None /\ ZipCacheEntries[z][3] # None
    /\ \E z \in DOMAIN ZipCacheEntries : ZipCacheEntries[z][1] # None
    /\ \E n \in 1..2 : ZipFallbackRows(n) # {}

(***************************************************************************)
(* The retry pass prefers new values only when the retry matched           *)
(***************************************************************************)
FiveCols == <<"county_fips", "county_name", "lat", "lon", "status">>
\* the five columns of a row as written to a CSV file
Five(row) == [c \in 1..5 |-> to_csv_cell(row[FiveCols[c]])]
\* the retry result of the address of a row, as written to a CSV file
RetryFive(row) == [c \in 1..5 |-> to_csv_cell(cache[oneline_retry(row)][c])]
RetryMatched(row) ==
    oneline_retry(row) \in DOMAIN cache /\ cache[oneline_retry(row)][5] = "matched"
\* the rows of df the mask selects (keep = TRUE) or leaves, as indices in order
Indices(df, mask, keep) == SelectSeq([k \in DOMAIN df |-> k], LAMBDA k : mask[k] = keep)

\* C16: in the file retry_file wrote, the rows matched in the input come first and
\* unchanged; each other row follows with its oneline as read, and its five result columns
\* are those of the retry when the retry of its address matched and those of the
\* input otherwise.
C16_PreferNewWhenMatched ==
    (script = "retry" /\ pc = "returned" /\ out_csv.exists) =>
       LET df == read_csv(in_csv)
           kept == Indices(df, miss_mask(df), FALSE)
           miss == Indices(df, miss_mask(df), TRUE)
           out == out_csv.rows
       IN /\ Len(out) = Len(kept) + Len(miss)
          /\ \A j \in DOMAIN kept : out[j] = in_csv[kept[j]]
          /\ \A j \in DOMAIN miss :
                LET row == df[miss[j]]
                    new == out[Len(kept) + j]
                IN /\ read_csv_cell(new.oneline) = row.oneline
                   /\ RetryMatched(row) => Five(new) = RetryFive(row)
                   /\ ~RetryMatched(row) => Five(new) = Five(row)

\* two unmatched rows were retried: one matched and took the new values, the other,
\* which has coordinates in the input, did not match
C16_Witness ==
    /\ script = "retry" /\ pc = "returned" /\ out_csv.exists /\ Len(in_csv) = 2
    /\ Unmatched(in_csv) = {1, 2}
    /\ \E k \in 1..2 : RetryMatched(read_csv(in_csv)[k]) /\ out_csv.rows[k].status = "matched"
    /\ \E k \in 1..2 : /\ oneline_retry(read_csv(in_csv)[k]) \in DOMAIN cache
                       /\ ~RetryMatched(read_csv(in_csv)[k])
                       /\ in_csv[k].lat # "" /\ out_csv.rows[k].lat = in_csv[k].lat

(***************************************************************************)
(* geocode_unique: the status and the attempts for one address             *)
(***************************************************************************)
\* C17: in geocode_unique the status stored for an address whose last attempt
\* returned normally is "matched" or "no_match", never an error status.
C17_StatusOfLastAttempt ==
    (script = "retry" /\ last_call.addr # None /\ last_call.resp.kind = "return") =>
       /\ last_call.result[5] \in {"matched", "no_match"}
       /\ cache[last_call.addr][5] \in {"matched", "no_match"}

\* the runs of 01_retry_no_match.py that are not stopped: a running process goes on
\* executing its loop, so the steps of the loop and the final save are weakly fair
\* (each of them changes the position in the program)
position == <<pc, pos, attempt>>
InitRetryOnly == script = "retry" /\ Init
NextRetryRunning ==
    \/ retry_file_start
    \/ geocode_unique_skip
    \/ geocode_unique_attempt
    \/ retry_file_finish
SpecRetryRunning ==
    /\ InitRetryOnly
    /\ [][NextRetryRunning]_vars
    /\ WF_position(geocode_unique_skip \/ geocode_unique_attempt \/ retry_file_finish)

\* the final save has run: every address of the run is in the checkpoint file
FinalSaveDone ==
    /\ pc = "returned" /\ checkpoint.exists
    /\ \A k \in DOMAIN addresses : addresses[k] \in DOMAIN checkpoint.text

\* C18: a call of geocode_unique for an address is at most the (max_retries + 1)-th
\* of the run; the address is not in the cache; every call after the first follows a
\* call for the same address that raised; a call that returns, or the last allowed
\* call, stores one result for the address and moves the loop to the next address,
\* any other call stores nothing; and a run in its loop reaches the final save.
C18_BoundedAttempts ==
    /\ [][script = "retry" =>
            \A a \in DOMAIN calls' :
               calls'[a] # Count(a) =>
                  /\ run_calls'[a] = RunCount(a) + 1
                  /\ run_calls'[a] <= max_retries + 1
                  /\ a \notin DOMAIN cache
                  /\ RunCount(a) > 0 => (IsRaise /\ last_call.addr = a)
                  /\ IF last_call'.resp.kind = "return" \/ run_calls'[a] = max_retries + 1
                     THEN /\ DOMAIN cache' = DOMAIN cache \cup {a}
                          /\ cache'[a] = last_call'.result
                          /\ \A x \in DOMAIN cache : cache'[x] = cache[x]
                          /\ pos' = pos + 1
                     ELSE cache' = cache /\ pos' = pos]_vars
    /\ (script = "retry" /\ pc = "loop") ~> FinalSaveDone

\* a run whose first two calls for an address raised and whose third returned has
\* stored the result of the third call and reached the final save
C18_Witness ==
    /\ script = "retry" /\ FinalSaveDone
    /\ last_call.addr # None /\ last_call.resp.kind = "return"
    /\ RunCount(last_call.addr) = max_retries + 1
    /\ cache[last_call.addr] = last_call.result

(***************************************************************************)
(* Stage 1: the FIPS of a matched result, and the run without a cache path *)
(***************************************************************************)
IsCountyFips(v) == ~Empty(v) /\ Len(v) = 5 /\ FiveDigits(v, 1)

\* C19: every stage-1 result with status "matched" has a county FIPS of five digits.
C19_MatchedHasCountyFips ==
    script = "geocode" =>
       \A r \in Stage1Rows : r.status = "matched" => IsCountyFips(r.county_fips)

\* C20: a call of geocode_addresses without a cache path does not raise, starts with
\* no cached row and every unique address to do, writes no file, and returns one
\* row for every unique address.
C20_NoCachePath ==
    (script = "geocode" /\ ~cache_path /\ runs > 0) =>
       /\ pc # "raised"
       /\ pc = "loop" => cached = << >>
       /\ to_do = unique
       /\ cache_file = << >>
       /\ pc = "returned" =>
             \A k \in DOMAIN unique : Cardinality(RowsOf(unique[k], returned)) = 1

(***************************************************************************)
(* The keys of the stage-1 cache file                                      *)
(***************************************************************************)
\* C21: no two rows of the stage-1 cache file have the same oneline.
C21_UniqueKeys ==
    script = "geocode" =>
       \A j, k \in DOMAIN cache_file :
          cache_file[j].oneline = cache_file[k].oneline => j = k

(***************************************************************************)
(* The ZIP fallback: which rows change, and applying it twice              *)
(***************************************************************************)
\* the cache entry of the ZIP of a row, None4 without a ZIP or an entry
ZipEntryOf(row) == Get(ZipCacheEntries, Zip5[row.oneline], None4)
\* the row is one the fallback changes: not matched, with a ZIP that has a county
ZipChanges(row) == row.status # "matched" /\ Zip5[row.oneline] # None /\ ZipEntryOf(row)[1] # None

apply_zip_fallback(input, f) ==
    LET df == read_csv(input)
        loaded == zip_load_cache(zip_cache)
        m == Select(df, zip_miss(df), TRUE)
        zips == Unique([k \in DOMAIN m |-> Zip5[m[k].oneline]])
        lacking == SelectSeq(zips, LAMBDA z : z \notin DOMAIN loaded)
    IN IF zips = << >>
       THEN /\ zip_out' = [zip_out EXCEPT ![f] = Written(df)]
            /\ zip_cache' = zip_cache /\ need' = << >>
       ELSE \E d \in [Range(lacking) -> ZipEntries] :
               LET cache1 == [z \in DOMAIN loaded \cup Range(lacking) |->
                                 IF z \in DOMAIN loaded THEN loaded[z] ELSE d[z]]
               IN /\ zip_cache' = zip_save_cache(cache1)
                  /\ zip_out' = [zip_out EXCEPT ![f] = Written(zip_apply(df, cache1))]
                  /\ need' = lacking

\* apply_zip_fallback on np_geocoded.csv, and then on the file it wrote: output 1 is
\* the output of the first application, output 2 that of the second
apply_zip_fallback_once ==
    /\ script = "zip_twice" /\ pc = "idle"
    /\ apply_zip_fallback(in_csv, 1)
    /\ pc' = "once"
    /\ UNCHANGED <<script, oracle, series, calls, run_calls, last_call, runs, dashvars, normvars,
                   s1vars, in_csv, rtvars, phys_csv, file_no, fcc_calls>>
apply_zip_fallback_twice ==
    /\ script = "zip_twice" /\ pc = "once"
    /\ apply_zip_fallback(zip_out[1].rows, 2)
    /\ pc' = "twice"
    /\ UNCHANGED <<script, oracle, series, calls, run_calls, last_call, runs, dashvars, normvars,
                   s1vars, in_csv, rtvars, phys_csv, file_no, fcc_calls>>

\* the ZIPs of the input files, and the cache files the script can have left
ZipKeys == {Zip5[a] : a \in InAddrs} \ {None}
ZipCacheFiles == {NoFile} \cup {zip_save_cache(d) : d \in UNION {[Z -> ZipEntries] : Z \in SUBSET ZipKeys}}
InitZipTwice ==
    /\ script = "zip_twice" /\ pc = "idle" /\ text = ""
    /\ oracle = AnyAnswer /\ series = AnySeries
    /\ InitCounters /\ InitGeocode
    /\ in_csv \in InFiles
    /\ out_csv = NotWritten /\ checkpoint = NoFile
    /\ addresses = << >> /\ pos = 0 /\ attempt = 0 /\ status = "no_match" /\ cache = EmptyDict
    /\ phys_csv = << >> /\ zip_cache \in ZipCacheFiles /\ zip_out = <<NotWritten, NotWritten>>
    /\ file_no = 1 /\ need = << >> /\ fcc_calls = EmptyDict
NextZipTwice == apply_zip_fallback_once \/ apply_zip_fallback_twice
SpecZipTwice == InitZipTwice /\ [][NextZipTwice]_vars

\* C23: apply_zip_fallback applied to its own output, with the cache file the first
\* application left, looks no ZIP up and writes a file identical to its input.
C23_Idempotent ==
    (script = "zip_twice" /\ pc = "twice") =>
       /\ need = << >>
       /\ zip_out[2].rows = zip_out[1].rows

\* the second application has written its output, its input holding a row with
\* status "zip_fallback" and an unmatched row whose ZIP has no county
C23_Witness ==
    /\ script = "zip_twice" /\ pc = "twice" /\ zip_out[2].exists
    /\ \E k, j \in DOMAIN zip_out[1].rows :
          /\ zip_out[1].rows[k].status = "zip_fallback" /\ in_csv[k].status # "zip_fallback"
          /\ zip_out[1].rows[j].status \notin {"matched", "zip_fallback"}
          /\ Zip5[read_csv_cell(zip_out[1].rows[j].oneline)] # None

(***************************************************************************)
(* The dashboard of app_dash.py: the page is loaded, then the user clicks  *)
(* on the map and changes the two selectors, in any order.                 *)
(***************************************************************************)
MaxPoints == 2
\* the "location" of a clicked point: a feature id of the figure, or nothing
Locations == {None, "", "13121", "13003", "1001", "13", "131210"}
Points == {[curveNumber |-> 0]}
          \cup {[curveNumber |-> 0, location |-> v] : v \in Locations}
PointLists == UNION {[1..n -> Points] : n \in 0..MaxPoints}
ClickValues == {NoClick, EmptyDict, [curveNumber |-> 0]}
               \cup {[points |-> ps] : ps \in PointLists}

dash_unchanged == <<script, oracle, series, calls, run_calls, last_call, runs, normvars,
                    s1vars, in_csv, rtvars, zipvars>>

\* the call of update_map that Dash makes when the page is loaded
update_map_initial ==
    /\ script = "app_dash" /\ pc = "layout"
    /\ ga_map' = update_map(metric, type_filter)[1]
    /\ map_title' = update_map(metric, type_filter)[2]
    /\ pc' = "update_map"
    /\ UNCHANGED <<selected_fips, clickData, metric, type_filter>>
    /\ UNCHANGED dash_unchanged

\* the user picks a metric: Input("metric", "value") fires update_map
update_map_metric ==
    /\ script = "app_dash" /\ pc # "layout"
    /\ \E m \in Range(metric_options) \ {metric} :
          /\ metric' = m
          /\ ga_map' = update_map(m, type_filter)[1]
          /\ map_title' = update_map(m, type_filter)[2]
    /\ pc' = "update_map"
    /\ UNCHANGED <<selected_fips, clickData, type_filter>>
    /\ UNCHANGED dash_unchanged

\* the user picks a county type: Input("type_filter", "value") fires update_map
update_map_type_filter ==
    /\ script = "app_dash" /\ pc # "layout"
    /\ \E t \in type_filter_options \ {type_filter} :
          /\ type_filter' = t
          /\ ga_map' = update_map(metric, t)[1]
          /\ map_title' = update_map(metric, t)[2]
    /\ pc' = "update_map"
    /\ UNCHANGED <<selected_fips, clickData, metric>>
    /\ UNCHANGED dash_unchanged

\* the user clicks on the map: Input("ga_map", "clickData") fires pick_county
pick_county_click ==
    /\ script = "app_dash" /\ pc # "layout"
    /\ \E cd \in ClickValues :
          /\ clickData' = cd
          /\ selected_fips' = pick_county(cd, selected_fips)
    /\ pc' = "pick_county"
    /\ UNCHANGED <<metric, type_filter, ga_map, map_title>>
    /\ UNCHANGED dash_unchanged

InitDashboard ==
    /\ script = "app_dash" /\ pc = "layout" /\ text = ""
    /\ oracle = AnyAnswer /\ series = AnySeries
    /\ InitCounters /\ InitGeocode /\ InitRetry /\ InitZip
NextDashboard ==
    update_map_initial \/ update_map_metric \/ update_map_type_filter \/ pick_county_click
SpecDashboard == InitDashboard /\ [][NextDashboard]_vars

\* the click data has a first point with a non-empty location
HasFirstLocation(cd) ==
    /\ cd # NoClick /\ "points" \in DOMAIN cd /\ Len(cd.points) >= 1
    /\ "location" \in DOMAIN cd.points[1]
    /\ cd.points[1].location \notin {None, ""}
\* t is s with zeros in front of it up to a length of 5
IsZeroPadded(t, s) ==
    /\ Len(t) = (IF Len(s) > 5 THEN Len(s) ELSE 5)
    /\ SubSeq(t, Len(t) - Len(s) + 1, Len(t)) = s
    /\ \A k \in 1..(Len(t) - Len(s)) : Ch(t, k) = "0"

\* C24: after pick_county the selection is the location of the first clicked point,
\* with zeros in front up to 5 characters, when the click data has such a point with a
\* non-empty location, and the selection of before otherwise; a call of update_map for
\* a new metric or county type leaves the selection as it was.
C24_ClickSelects ==
    [][script = "app_dash" =>
         /\ pc' = "pick_county" =>
               IF HasFirstLocation(clickData')
               THEN IsZeroPadded(selected_fips', clickData'.points[1].location)
               ELSE selected_fips' = selected_fips
         /\ pc' = "update_map" => selected_fips' = selected_fips]_vars
C24_Witness ==
    /\ script = "app_dash" /\ pc = "update_map"
    /\ HasFirstLocation(clickData) /\ clickData.points[1].location = "1001"
    /\ selected_fips = "01001"
    /\ metric # metric_options[1] /\ type_filter # "All"

====
